---- MODULE Spec2Model ----
(***************************************************************************)
(* Conway's Game of Life on a toroidal grid (src/src/main.rs).             *)
(*                                                                         *)
(* A GameOfLife value is a record [w, h, curr, next, paused, step_once,    *)
(* delay_ms]; curr and next are the two Vec<u8> buffers, modelled as       *)
(* functions over 0 .. w*h-1 (row-major, index y*w + x).  Every method of  *)
(* impl GameOfLife is an operator from the value before the call to the    *)
(* value after it.                                                         *)
(***************************************************************************)
EXTENDS Integers, Sequences, FiniteSets

VARIABLES
    gol,    \* the GameOfLife value
    pc,     \* "idle" | "scan" (inside step's loops) | "panicked" (aborted)
    k,      \* inside step: number of cells already written to next
    op,     \* the last call: [name, x, y, ret, panic]
    nops,   \* number of calls made so far
    pre,    \* the GameOfLife value when the last call was made
    twin,   \* SpecTwin: a second GameOfLife value, [now, was] (was: before its step)
    seeded, \* SpecCatalog: the pattern seeded on the empty grid, [name, x, y]
    loop    \* SpecDriver: main's locals and the history of the loop iteration

vars == <<gol, pc, k, op, nops, pre, twin, seeded, loop>>

----------------------------------------------------------------------------
(* Bounds of the model                                                     *)

MaxCells == 4      \* Spec, SpecCall, SpecTwin: grids of at most MaxCells cells
MaxArg == 2        \* coordinate arguments of a call are in 0 .. MaxArg
MaxOps == 2        \* calls per behaviour
CatalogSide == 4   \* SpecCatalog: grids of 1 .. CatalogSide columns and rows
MaxGen == 3        \* SpecCatalog: generations after the seeding
RngPeriod == 2     \* the random stream repeats after RngPeriod draws
ScanSide == 4      \* SpecScan: grids of 1 .. ScanSide columns and rows
ScanCells == 12    \* SpecScan: and of at most ScanCells cells
BlinkerSide == 6   \* SpecBlinker: grids of 5 .. BlinkerSide columns and rows
GliderSide == 6    \* SpecGlider: grids of 5 .. GliderSide columns and rows
ShipSide == 11     \* SpecShips: grids of 11 .. ShipSide columns and rows
ShipGen == 4       \* SpecGlider, SpecShips: generations after the seeding
DriverCells == 1   \* SpecDriver: grids of one column of 1 .. DriverCells cells
MaxKeys == 1       \* SpecDriver: keys pressed in one iteration of the loop
RandCells == 2     \* SpecRandomize: grids of at most RandCells cells
OscSide == 7       \* SpecOscillators: grids of 6 .. OscSide columns and rows
PulsarSide == 16   \* SpecOscillators: and, for the pulsar, squares of side 16 .. PulsarSide
PentaSide == 12    \* SpecPentadecathlon: grids of 12 .. PentaSide columns and rows
PentaGen == 15     \* SpecPentadecathlon: generations after the seeding

----------------------------------------------------------------------------
(* The struct and its constructor                                          *)

Cells(s) == 0 .. (s.w * s.h - 1)

new(w0, h0) ==
    [w |-> w0, h |-> h0,
     curr |-> [i \in 0 .. (w0 * h0 - 1) |-> 0],
     next |-> [i \in 0 .. (w0 * h0 - 1) |-> 0],
     paused |-> FALSE, step_once |-> FALSE, delay_ms |-> 100]

idx(self, x, y) == y * self.w + x

----------------------------------------------------------------------------
(* Cell access                                                             *)

set_alive_offbyone(self, x, y) ==
    IF x <= self.w /\ y < self.h /\ idx(self, x, y) \in DOMAIN self.curr
    THEN [self EXCEPT !.curr[idx(self, x, y)] = 1]
    ELSE self

\* Mutant: the cell is incremented, not set to 1.
set_alive_increments(self, x, y) ==
    IF x < self.w /\ y < self.h
    THEN [self EXCEPT !.curr[idx(self, x, y)] = (self.curr[idx(self, x, y)] + 1) % 256]
    ELSE self

set_alive(self, x, y) ==
    IF x < self.w /\ y < self.h
    THEN [self EXCEPT !.curr[idx(self, x, y)] = 1]
    ELSE self

set_dead(self, x, y) ==
    IF x < self.w /\ y < self.h
    THEN [self EXCEPT !.curr[idx(self, x, y)] = 0]
    ELSE self

\* self.curr[i] panics when i is not an index of the vector.
is_alive_panics(self, x, y) == idx(self, x, y) \notin DOMAIN self.curr

is_alive(self, x, y) == self.curr[idx(self, x, y)] = 1

clear_curr_only(self) ==
    [self EXCEPT !.curr = [i \in DOMAIN self.curr |-> 0]]

clear(self) ==
    [self EXCEPT !.curr = [i \in DOMAIN self.curr |-> 0],
                 !.next = [i \in DOMAIN self.next |-> 0]]

\* Mutant: a cell is alive when its draw is at most prob_alive.
randomize_inclusive(self, prob_alive, draw) ==
    [self EXCEPT !.curr = [i \in DOMAIN self.curr |->
                              IF draw[i] <= prob_alive THEN 1 ELSE 0]]

\* rng.gen::<f32>() is uniform in [0,1); draws and prob_alive are scaled by
\* 100.  draw[i] is the draw made for cell i (the loop visits curr in order).
randomize(self, prob_alive, draw) ==
    [self EXCEPT !.curr = [i \in DOMAIN self.curr |->
                              IF draw[i] < prob_alive THEN 1 ELSE 0]]

----------------------------------------------------------------------------
(* Transition engine                                                       *)

\* isize::rem_euclid with a positive divisor: the result is in 0 .. b-1.
\* (TLA+'s % is the Euclidean remainder for b > 0.)
rem_euclid(a, b) == a % b

\* The (dx, dy) pairs in the order the two loops visit them, (0,0) skipped.
NeighborOffsets ==
    << <<-1, -1>>, <<0, -1>>, <<1, -1>>,
       <<-1,  0>>,            <<1,  0>>,
       <<-1,  1>>, <<0,  1>>, <<1,  1>> >>

\* count += v on a u8
add_u8(a, b) == (a + b) % 256

RECURSIVE neighbors_from(_, _, _, _)
neighbors_from(self, x, y, n) ==
    IF n = 0 THEN 0
    ELSE LET d  == NeighborOffsets[n]
             nx == rem_euclid(x + d[1], self.w)
             ny == rem_euclid(y + d[2], self.h)
         IN  add_u8(neighbors_from(self, x, y, n - 1), self.curr[idx(self, nx, ny)])

\* Mutant: a bounded grid, neighbours past an edge are not counted.
live_neighbors_no_wrap(self, x, y) ==
    LET inside(n) == /\ x + NeighborOffsets[n][1] \in 0 .. (self.w - 1)
                     /\ y + NeighborOffsets[n][2] \in 0 .. (self.h - 1)
        RECURSIVE sum(_)
        sum(n) == IF n = 0 THEN 0
                  ELSE sum(n - 1)
                       + (IF inside(n)
                          THEN self.curr[idx(self, x + NeighborOffsets[n][1],
                                                   y + NeighborOffsets[n][2])]
                          ELSE 0)
    IN  sum(Len(NeighborOffsets))

live_neighbors(self, x, y) == neighbors_from(self, x, y, Len(NeighborOffsets))

\* Mutant: the overpopulation arm starts at n > 4.
new_state_overpopulation_late(alive, n) ==
    IF alive /\ n < 2 THEN 0
    ELSE IF alive /\ (n = 2 \/ n = 3 \/ n = 4) THEN 1
    ELSE IF alive /\ n > 4 THEN 0
    ELSE IF ~alive /\ n = 3 THEN 1
    ELSE 0

\* Mutant: the reproduction arm also takes n = 2.
new_state_birth_from_two(alive, n) ==
    IF alive /\ n < 2 THEN 0
    ELSE IF alive /\ (n = 2 \/ n = 3) THEN 1
    ELSE IF alive /\ n > 3 THEN 0
    ELSE IF ~alive /\ (n = 2 \/ n = 3) THEN 1
    ELSE 0

\* Mutant: the survival arm takes only n = 2.
new_state_survival_on_two_only(alive, n) ==
    IF alive /\ n < 2 THEN 0
    ELSE IF alive /\ n = 2 THEN 1
    ELSE IF alive /\ n > 2 THEN 0
    ELSE IF ~alive /\ n = 3 THEN 1
    ELSE 0

\* The match of step, arms in source order (first match wins).
new_state(alive, n) ==
    IF alive /\ n < 2 THEN 0
    ELSE IF alive /\ (n = 2 \/ n = 3) THEN 1
    ELSE IF alive /\ n > 3 THEN 0
    ELSE IF ~alive /\ n = 3 THEN 1
    ELSE 0

\* Mutant: the new state is written to curr, in place.
step_cell_in_place(self, x, y) ==
    LET alive == self.curr[idx(self, x, y)] = 1
        n     == live_neighbors(self, x, y)
    IN  [self EXCEPT !.curr[idx(self, x, y)] = new_state(alive, n)]

\* Mutant: the cell's own state is read from the scratch buffer.
step_cell_reads_next(self, x, y) ==
    LET alive == self.next[idx(self, x, y)] = 1
        n     == live_neighbors(self, x, y)
    IN  [self EXCEPT !.next[idx(self, x, y)] = new_state(alive, n)]

\* The body of step's inner loop for cell (x, y).
step_cell(self, x, y) ==
    LET alive == self.curr[idx(self, x, y)] = 1
        n     == live_neighbors(self, x, y)
    IN  [self EXCEPT !.next[idx(self, x, y)] = new_state(alive, n)]

\* The n-th cell the loops visit (n = 0, 1, ...): y outer, x inner.
scan_x(self, n) == n % self.w
scan_y(self, n) == n \div self.w

\* std::mem::swap(&mut self.curr, &mut self.next)
swap_buffers(self) == [self EXCEPT !.curr = self.next, !.next = self.curr]

\* for x in 0..self.w: the first n cells of row y
RECURSIVE step_row(_, _, _)
step_row(self, y, n) ==
    IF n = 0 THEN self
    ELSE step_cell(step_row(self, y, n - 1), n - 1, y)

\* for y in 0..self.h: the first n rows
RECURSIVE step_rows(_, _)
step_rows(self, n) ==
    IF n = 0 THEN self
    ELSE LET s == step_rows(self, n - 1)
         IN  step_row(s, n - 1, s.w)

step(self) == swap_buffers(step_rows(self, self.h))

----------------------------------------------------------------------------
(* Pattern seeding                                                         *)

\* (ox + dx) % self.w panics when self.w = 0, and likewise for self.h.
spawn_panics(self, rel) == Len(rel) > 0 /\ (self.w = 0 \/ self.h = 0)

\* Mutant: cells past the right or bottom edge are dropped, not wrapped.
RECURSIVE spawn_from_clipped(_, _, _, _, _)
spawn_from_clipped(self, rel, ox, oy, n) ==
    IF n = 0 THEN self
    ELSE set_alive(spawn_from_clipped(self, rel, ox, oy, n - 1),
                   ox + rel[n][1], oy + rel[n][2])

RECURSIVE spawn_from(_, _, _, _, _)
spawn_from(self, rel, ox, oy, n) ==
    IF n = 0 THEN self
    ELSE LET s == spawn_from(self, rel, ox, oy, n - 1)
             x == (ox + rel[n][1]) % s.w
             y == (oy + rel[n][2]) % s.h
         IN  [s EXCEPT !.curr[idx(s, x, y)] = 1]

spawn(self, rel, ox, oy) == spawn_from(self, rel, ox, oy, Len(rel))

\* str::lines(): the text split at "\n"; a final "\n" ends the last line
\* and starts no new one.  A text is a sequence of one-character strings.
RECURSIVE lines_from(_, _, _)
lines_from(text, p, line) ==
    IF p > Len(text) THEN (IF line = <<>> THEN <<>> ELSE <<line>>)
    ELSE IF text[p] = "\n" THEN <<line>> \o lines_from(text, p + 1, <<>>)
    ELSE lines_from(text, p + 1, Append(line, text[p]))

lines(text) == lines_from(text, 1, <<>>)

\* The (dx, dy) of every char equal to `alive`, in the order of the two
\* enumerate() loops (dy and dx count from 0).
RECURSIVE line_cells(_, _, _, _)
line_cells(line, dy, alive, n) ==
    IF n = 0 THEN <<>>
    ELSE line_cells(line, dy, alive, n - 1)
         \o (IF line[n] = alive THEN << <<n - 1, dy>> >> ELSE <<>>)

RECURSIVE ascii_cells(_, _, _)
ascii_cells(ls, alive, n) ==
    IF n = 0 THEN <<>>
    ELSE ascii_cells(ls, alive, n - 1)
         \o line_cells(ls[n], n - 1, alive, Len(ls[n]))

\* The writes of spawn_pattern_ascii are those of spawn on the live chars.
spawn_pattern_ascii(self, ox, oy, pattern, alive) ==
    LET ls == lines(pattern)
    IN  spawn(self, ascii_cells(ls, alive, Len(ls)), ox, oy)

spawn_pattern_ascii_panics(self, pattern, alive) ==
    LET ls == lines(pattern)
    IN  spawn_panics(self, ascii_cells(ls, alive, Len(ls)))

\* Catalog
block_coords == << <<0, 0>>, <<1, 0>>, <<0, 1>>, <<1, 1>> >>

r_pentomino_pat ==
    << ".", "#", "#", "\n",
       "#", "#", ".", "\n",
       ".", "#", "." >>

spawn_block(self, x, y) == spawn(self, block_coords, x, y)
spawn_r_pentomino(self, x, y) == spawn_pattern_ascii(self, x, y, r_pentomino_pat, "#")

beehive_coords ==
    << <<1, 0>>, <<2, 0>>, <<0, 1>>, <<3, 1>>, <<1, 2>>, <<2, 2>> >>

loaf_coords ==
    << <<1, 0>>, <<2, 0>>, <<0, 1>>, <<3, 1>>, <<1, 2>>, <<3, 2>>,
       <<2, 3>> >>

boat_coords ==
    << <<0, 0>>, <<1, 0>>, <<0, 1>>, <<2, 1>>, <<1, 2>> >>

tub_coords ==
    << <<1, 0>>, <<0, 1>>, <<2, 1>>, <<1, 2>> >>

\* Mutant: three cells in a corner, not in a row.
blinker_coords_corner ==
    << <<0, 0>>, <<1, 0>>, <<1, 1>> >>

blinker_coords ==
    << <<0, 0>>, <<1, 0>>, <<2, 0>> >>

toad_coords ==
    << <<1, 0>>, <<2, 0>>, <<3, 0>>, <<0, 1>>, <<1, 1>>, <<2, 1>> >>

beacon_coords ==
    << <<0, 0>>, <<1, 0>>, <<0, 1>>, <<1, 1>>, <<2, 2>>, <<3, 2>>,
       <<2, 3>>, <<3, 3>> >>

pulsar_rel ==
    << <<2, 0>>, <<3, 0>>, <<4, 0>>, <<8, 0>>, <<9, 0>>, <<10, 0>>,
       <<0, 2>>, <<5, 2>>, <<7, 2>>, <<12, 2>>, <<0, 3>>, <<5, 3>>,
       <<7, 3>>, <<12, 3>>, <<0, 4>>, <<5, 4>>, <<7, 4>>, <<12, 4>>,
       <<2, 5>>, <<3, 5>>, <<4, 5>>, <<8, 5>>, <<9, 5>>, <<10, 5>>,
       <<2, 7>>, <<3, 7>>, <<4, 7>>, <<8, 7>>, <<9, 7>>, <<10, 7>>,
       <<0, 8>>, <<5, 8>>, <<7, 8>>, <<12, 8>>, <<0, 9>>, <<5, 9>>,
       <<7, 9>>, <<12, 9>>, <<0, 10>>, <<5, 10>>, <<7, 10>>, <<12, 10>>,
       <<2, 12>>, <<3, 12>>, <<4, 12>>, <<8, 12>>, <<9, 12>>, <<10, 12>> >>

pentadecathlon_rel ==
    << <<1, 0>>, <<2, 0>>, <<1, 1>>, <<2, 1>>, <<1, 3>>, <<2, 3>>,
       <<1, 4>>, <<2, 4>>, <<1, 5>>, <<2, 5>>, <<1, 6>>, <<2, 6>>,
       <<1, 8>>, <<2, 8>>, <<1, 9>>, <<2, 9>> >>

\* Mutant: the glider mirrored left to right.
glider_coords_mirrored ==
    << <<1, 0>>, <<0, 1>>, <<0, 2>>, <<1, 2>>, <<2, 2>> >>

glider_coords ==
    << <<1, 0>>, <<2, 1>>, <<0, 2>>, <<1, 2>>, <<2, 2>> >>

\* Mutant: the cell (4, 2) of the spaceship is missing.
lwss_rel_short ==
    << <<1, 0>>, <<4, 0>>, <<0, 1>>, <<0, 2>>, <<0, 3>>,
       <<1, 3>>, <<2, 3>>, <<3, 3>> >>

lwss_rel ==
    << <<1, 0>>, <<4, 0>>, <<0, 1>>, <<0, 2>>, <<4, 2>>, <<0, 3>>,
       <<1, 3>>, <<2, 3>>, <<3, 3>> >>

mwss_pat ==
    << ".", ".", "#", "#", "#", "#", ".", "\n",
       ".", "#", ".", ".", ".", ".", "#", "\n",
       "#", ".", ".", ".", ".", ".", "#", "\n",
       "#", ".", ".", ".", ".", "#", ".", "\n",
       ".", "#", "#", "#", "#", "#", "." >>

hwss_pat ==
    << ".", ".", "#", "#", "#", "#", "#", ".", "\n",
       ".", "#", ".", ".", ".", ".", ".", "#", "\n",
       "#", ".", ".", ".", ".", ".", ".", "#", "\n",
       "#", ".", ".", ".", ".", ".", "#", ".", "\n",
       ".", "#", "#", "#", "#", "#", "#", "." >>

spawn_beehive(self, x, y) == spawn(self, beehive_coords, x, y)
spawn_loaf(self, x, y) == spawn(self, loaf_coords, x, y)
spawn_boat(self, x, y) == spawn(self, boat_coords, x, y)
spawn_tub(self, x, y) == spawn(self, tub_coords, x, y)
spawn_blinker(self, x, y) == spawn(self, blinker_coords, x, y)
spawn_toad(self, x, y) == spawn(self, toad_coords, x, y)
spawn_beacon(self, x, y) == spawn(self, beacon_coords, x, y)
spawn_glider(self, x, y) == spawn(self, glider_coords, x, y)
spawn_pulsar(self, x, y) == spawn(self, pulsar_rel, x, y)
spawn_pentadecathlon(self, x, y) == spawn(self, pentadecathlon_rel, x, y)
spawn_lwss(self, x, y) == spawn(self, lwss_rel, x, y)
spawn_mwss(self, x, y) == spawn_pattern_ascii(self, x, y, mwss_pat, "#")
spawn_hwss(self, x, y) == spawn_pattern_ascii(self, x, y, hwss_pat, "#")

----------------------------------------------------------------------------
(* The calls a driver can make on a GameOfLife                             *)

\* The grid sizes of at most n cells, zero widths and heights included.
GridSizes(n) == {d \in (0 .. n) \X (0 .. n) : d[1] * d[2] <= n}

Args == 0 .. MaxArg
Delays == {200, 100, 16}       \* keys 1, 2, 3
Probs == {0, 20, 100}          \* prob_alive * 100; the driver passes 0.20
Draws == {19, 20}              \* draw * 100, on both sides of 0.20
RngStreams == [0 .. (RngPeriod - 1) -> Draws]

Call(name, x, y, ret) ==
    [name |-> name, x |-> x, y |-> y, ret |-> ret, panic |-> FALSE]
PanicCall(name, x, y) ==
    [name |-> name, x |-> x, y |-> y, ret |-> 0, panic |-> TRUE]

Bit(b) == IF b THEN 1 ELSE 0

NoTwin == [now |-> new(0, 0), was |-> new(0, 0)]
NoSeed == [name |-> "none", x |-> 0, y |-> 0]

\* main's locals before the loop: no key pressed, last_step just taken,
\* nothing rendered.
NoLoop ==
    [keys |-> {}, elapsed |-> 0, stepped |-> FALSE,
     begun |-> [paused |-> FALSE, step_once |-> FALSE, curr |-> << >>],
     input |-> new(0, 0), shown |-> << >>]

CanCall == pc = "idle" /\ nops < MaxOps

Returns(g, c) ==
    /\ gol' = g
    /\ pre' = gol
    /\ op' = c
    /\ nops' = nops + 1
    /\ UNCHANGED <<pc, k, twin, seeded, loop>>

\* A panic aborts the process: nothing runs afterwards.
Panics(c) ==
    /\ pc' = "panicked"
    /\ pre' = gol
    /\ op' = c
    /\ nops' = nops + 1
    /\ UNCHANGED <<gol, k, twin, seeded, loop>>

SetAlive(x, y) ==
    /\ CanCall
    /\ Returns(set_alive(gol, x, y), Call("set_alive", x, y, 0))

SetDead(x, y) ==
    /\ CanCall
    /\ Returns(set_dead(gol, x, y), Call("set_dead", x, y, 0))

IsAlive(x, y) ==
    /\ CanCall
    /\ IF is_alive_panics(gol, x, y)
       THEN Panics(PanicCall("is_alive", x, y))
       ELSE Returns(gol, Call("is_alive", x, y, Bit(is_alive(gol, x, y))))

Clear ==
    /\ CanCall
    /\ Returns(clear(gol), Call("clear", 0, 0, 0))

Randomize(p, stream) ==
    /\ CanCall
    /\ LET draw == [i \in Cells(gol) |-> stream[i % RngPeriod]]
       IN  Returns(randomize(gol, p, draw), Call("randomize", p, 0, 0))

Step ==
    /\ CanCall
    /\ Returns(step(gol), Call("step", 0, 0, 0))

SpawnBlock(x, y) ==
    /\ CanCall
    /\ IF spawn_panics(gol, block_coords)
       THEN Panics(PanicCall("spawn_block", x, y))
       ELSE Returns(spawn_block(gol, x, y), Call("spawn_block", x, y, 0))

SpawnRPentomino(x, y) ==
    /\ CanCall
    /\ IF spawn_pattern_ascii_panics(gol, r_pentomino_pat, "#")
       THEN Panics(PanicCall("spawn_r_pentomino", x, y))
       ELSE Returns(spawn_r_pentomino(gol, x, y), Call("spawn_r_pentomino", x, y, 0))

\* The driver writes the run-state fields directly.
TogglePaused ==
    /\ CanCall
    /\ Returns([gol EXCEPT !.paused = ~gol.paused], Call("toggle_paused", 0, 0, 0))

RequestStep ==
    /\ CanCall
    /\ Returns([gol EXCEPT !.step_once = TRUE], Call("request_step", 0, 0, 0))

SetDelay(d) ==
    /\ CanCall
    /\ Returns([gol EXCEPT !.delay_ms = d], Call("set_delay", d, 0, 0))

Next ==
    \/ \E x \in Args, y \in Args : SetAlive(x, y)
    \/ \E x \in Args, y \in Args : SetDead(x, y)
    \/ \E x \in Args, y \in Args : IsAlive(x, y)
    \/ Clear
    \/ \E p \in Probs, stream \in RngStreams : Randomize(p, stream)
    \/ Step
    \/ \E x \in Args, y \in Args : SpawnBlock(x, y)
    \/ \E x \in Args, y \in Args : SpawnRPentomino(x, y)
    \/ TogglePaused
    \/ RequestStep
    \/ \E d \in Delays : SetDelay(d)

----------------------------------------------------------------------------
(* Spec: up to MaxOps calls on a value built by new                        *)

Init ==
    /\ \E d \in GridSizes(MaxCells) : gol = new(d[1], d[2])
    /\ pc = "idle"
    /\ k = 0
    /\ op = Call("new", 0, 0, 0)
    /\ nops = 0
    /\ pre = gol
    /\ twin = NoTwin
    /\ seeded = NoSeed
    /\ loop = NoLoop

Spec == Init /\ [][Next]_vars

----------------------------------------------------------------------------
(* SpecCall: one call on any GameOfLife value of at most MaxCells cells.   *)
(* Every such value is one the calls above can produce: curr by set_alive  *)
(* and set_dead, next by a step, the run state by the driver's writes.     *)

Buffers(d) == [0 .. (d[1] * d[2] - 1) -> {0, 1}]

\* <<paused, step_once, delay_ms>>: the run state of new and three others,
\* with every flag and every delay in one of them.
RunStates ==
    { <<FALSE, FALSE, 100>>, <<TRUE, FALSE, 200>>,
      <<FALSE, TRUE, 16>>,   <<TRUE, TRUE, 16>> }

InitCall ==
    /\ \E d \in GridSizes(MaxCells) :
       \E c \in Buffers(d), n \in Buffers(d), r \in RunStates :
          gol = [w |-> d[1], h |-> d[2], curr |-> c, next |-> n,
                 paused |-> r[1], step_once |-> r[2], delay_ms |-> r[3]]
    /\ pc = "idle"
    /\ k = 0
    /\ op = Call("new", 0, 0, 0)
    /\ nops = MaxOps - 1
    /\ pre = gol
    /\ twin = NoTwin
    /\ seeded = NoSeed
    /\ loop = NoLoop

SpecCall == InitCall /\ [][Next]_vars

----------------------------------------------------------------------------
(* SpecRandomize: one call of randomize on any GameOfLife value of at most *)
(* RandCells cells, every cell with a draw of its own, which the call      *)
(* record keeps                                                            *)

\* Draws across [0,1), scaled by 100: the least, both sides of 0.20, and
\* the greatest.
UnitDraws == {0, 19, 20, 99}

\* The draws of a call as one number: draw[i] is its i-th digit in base 100.
RECURSIVE Pow100(_)
Pow100(n) == IF n = 0 THEN 1 ELSE 100 * Pow100(n - 1)

RECURSIVE DrawCode(_, _)
DrawCode(draw, n) ==
    IF n = 0 THEN 0 ELSE DrawCode(draw, n - 1) + draw[n - 1] * Pow100(n - 1)

InitRandomize ==
    /\ \E d \in GridSizes(RandCells) :
       \E c \in Buffers(d), n \in Buffers(d) :
          gol = [new(d[1], d[2]) EXCEPT !.curr = c, !.next = n]
    /\ pc = "idle"
    /\ k = 0
    /\ op = Call("new", 0, 0, 0)
    /\ nops = MaxOps - 1
    /\ pre = gol
    /\ twin = NoTwin
    /\ seeded = NoSeed
    /\ loop = NoLoop

RandomizeDrawn(p, draw) ==
    /\ CanCall
    /\ Returns(randomize(gol, p, draw),
               Call("randomize", p, DrawCode(draw, gol.w * gol.h), 0))

NextRandomize ==
    \E p \in Probs, draw \in [Cells(gol) -> UnitDraws] : RandomizeDrawn(p, draw)

SpecRandomize == InitRandomize /\ [][NextRandomize]_vars

----------------------------------------------------------------------------
(* SpecDriver: the loop of main.  An iteration is three steps: the input   *)
(* handling, the update (should_step and the call of step), the render.    *)
(* loop holds main's locals and the history of the iteration:              *)
(*   keys     the keys is_key_pressed reported in this iteration           *)
(*   elapsed  last_step.elapsed() as should_step last read it              *)
(*   stepped  step was called in the last update, which reset last_step    *)
(*   begun    paused, step_once and curr of gol when the iteration began   *)
(*   input    gol after the input handling                                 *)
(*   shown    the buffer the last render drew                              *)
(* Times are in ms and kept as the greatest of 0, 16, 100, 200 they have   *)
(* reached, which decides every comparison with delay_ms.                  *)

Keys == {"Space", "N", "C", "R", "Key1", "Key2", "Key3"}
KeySets == {s \in SUBSET Keys : Cardinality(s) <= MaxKeys}
Times == {0, 16, 100, 200}

DriverSizes == {<<1, n>> : n \in 1 .. DriverCells}

\* The seven `if window.is_key_pressed(..)` of the loop, in source order.
handle_input(g, keys, draw) ==
    LET g1 == IF "Space" \in keys THEN [g EXCEPT !.paused = ~g.paused] ELSE g
        g2 == IF "N" \in keys THEN [g1 EXCEPT !.step_once = TRUE] ELSE g1
        g3 == IF "C" \in keys THEN clear(g2) ELSE g2
        g4 == IF "R" \in keys THEN randomize(g3, 20, draw) ELSE g3
        g5 == IF "Key1" \in keys THEN [g4 EXCEPT !.delay_ms = 200] ELSE g4
        g6 == IF "Key2" \in keys THEN [g5 EXCEPT !.delay_ms = 100] ELSE g5
    IN  IF "Key3" \in keys THEN [g6 EXCEPT !.delay_ms = 16] ELSE g6

\* Mutant: the timer decides, paused or not.
should_step_on_timer_only(g, elapsed) == elapsed >= g.delay_ms

should_step(g, elapsed) ==
    IF g.paused THEN g.step_once ELSE elapsed >= g.delay_ms

\* main before the loop: the grid of new with the seeded patterns on it.
InitDriver ==
    /\ \E d \in DriverSizes : \E c \in Buffers(d) :
          gol = [new(d[1], d[2]) EXCEPT !.curr = c]
    /\ pc = "input"
    /\ k = 0
    /\ op = Call("new", 0, 0, 0)
    /\ nops = 0
    /\ pre = gol
    /\ twin = NoTwin
    /\ seeded = NoSeed
    /\ loop = [NoLoop EXCEPT !.begun.curr = gol.curr, !.input = gol]

Input(keys, draw) ==
    /\ pc = "input"
    /\ "R" \notin keys => \A i \in Cells(gol) : draw[i] = 20   \* no draw is made
    /\ LET g == handle_input(gol, keys, draw)
       IN  /\ gol' = g
           /\ loop' = [loop EXCEPT
                         !.keys = keys, !.input = g,
                         !.begun = [paused |-> gol.paused,
                                    step_once |-> gol.step_once,
                                    curr |-> gol.curr]]
    /\ pc' = "update"
    /\ UNCHANGED <<k, op, nops, pre, twin, seeded>>

\* t is the time since last_step by now: at least what the update before
\* read, unless that update reset last_step.
Update(t) ==
    /\ pc = "update"
    /\ t >= (IF loop.stepped THEN 0 ELSE loop.elapsed)
    /\ IF should_step(gol, t)
       THEN /\ gol' = [step(gol) EXCEPT !.step_once = FALSE]
            /\ loop' = [loop EXCEPT !.elapsed = t, !.stepped = TRUE]
       ELSE /\ gol' = gol
            /\ loop' = [loop EXCEPT !.elapsed = t, !.stepped = FALSE]
    /\ pc' = "render"
    /\ UNCHANGED <<k, op, nops, pre, twin, seeded>>

Render ==
    /\ pc = "render"
    /\ loop' = [loop EXCEPT !.shown = gol.curr]
    /\ pc' = "input"
    /\ UNCHANGED <<gol, k, op, nops, pre, twin, seeded>>

\* The window was closed or Escape is down: the loop ends.
Quit ==
    /\ pc = "input"
    /\ pc' = "done"
    /\ UNCHANGED <<gol, k, op, nops, pre, twin, seeded, loop>>

NextDriver ==
    \/ \E keys \in KeySets : \E draw \in [Cells(gol) -> Draws] :
          Input(keys, draw)
    \/ \E t \in Times : Update(t)
    \/ Render
    \/ Quit

SpecDriver == InitDriver /\ [][NextDriver]_vars

----------------------------------------------------------------------------
(* SpecScan: one call of step, taken one cell write at a time, or of       *)
(* live_neighbors, on every grid of 1 .. ScanSide columns and rows and at  *)
(* most ScanCells cells                                                    *)

ScanSizes ==
    {d \in (1 .. ScanSide) \X (1 .. ScanSide) : d[1] * d[2] <= ScanCells}

InitScan ==
    /\ \E d \in ScanSizes :
       \E c \in Buffers(d) : gol = [new(d[1], d[2]) EXCEPT !.curr = c]
    /\ pc = "idle"
    /\ k = 0
    /\ op = Call("new", 0, 0, 0)
    /\ nops = MaxOps - 1
    /\ pre = gol
    /\ twin = NoTwin
    /\ seeded = NoSeed
    /\ loop = NoLoop

\* step is called: the loops start at the first cell.
ScanBegin ==
    /\ CanCall
    /\ pc' = "scan"
    /\ k' = 0
    /\ op' = Call("step", 0, 0, 0)
    /\ nops' = nops + 1
    /\ pre' = gol
    /\ UNCHANGED <<gol, twin, seeded, loop>>

\* One pass of the inner loop's body.
ScanCell ==
    /\ pc = "scan"
    /\ k < gol.w * gol.h
    /\ gol' = step_cell(gol, scan_x(gol, k), scan_y(gol, k))
    /\ k' = k + 1
    /\ UNCHANGED <<pc, op, nops, pre, twin, seeded, loop>>

\* The loops are over: the buffers are swapped and step returns.
ScanSwap ==
    /\ pc = "scan"
    /\ k = gol.w * gol.h
    /\ gol' = swap_buffers(gol)
    /\ pc' = "idle"
    /\ k' = 0
    /\ UNCHANGED <<op, nops, pre, twin, seeded, loop>>

LiveNeighbors(x, y) ==
    /\ CanCall
    /\ x < gol.w /\ y < gol.h
    /\ Returns(gol, Call("live_neighbors", x, y, live_neighbors(gol, x, y)))

NextScan ==
    \/ ScanBegin
    \/ ScanCell
    \/ ScanSwap
    \/ \E x \in 0 .. (ScanSide - 1), y \in 0 .. (ScanSide - 1) : LiveNeighbors(x, y)

SpecScan == InitScan /\ [][NextScan]_vars

----------------------------------------------------------------------------
(* SpecTwin: step on two GameOfLife values of the same size and the same   *)
(* current buffer.  gol has the scratch buffer and run state new gives,    *)
(* twin has any: values that all agree with gol agree with each other.     *)

InitTwin ==
    /\ \E d \in {g \in GridSizes(MaxCells) : g[1] > 0 /\ g[2] > 0} :
       \E c \in Buffers(d), n2 \in Buffers(d) :
       \E pa \in BOOLEAN, so \in BOOLEAN, dl \in Delays :
          /\ gol = [new(d[1], d[2]) EXCEPT !.curr = c]
          /\ LET t == [w |-> d[1], h |-> d[2], curr |-> c, next |-> n2,
                       paused |-> pa, step_once |-> so, delay_ms |-> dl]
             IN  twin = [now |-> t, was |-> t]
    /\ pc = "idle"
    /\ k = 0
    /\ op = Call("new", 0, 0, 0)
    /\ nops = MaxOps - 1
    /\ pre = gol
    /\ seeded = NoSeed
    /\ loop = NoLoop

StepBoth ==
    /\ CanCall
    /\ gol' = step(gol)
    /\ twin' = [now |-> step(twin.now), was |-> twin.now]
    /\ pre' = gol
    /\ op' = Call("step", 0, 0, 0)
    /\ nops' = nops + 1
    /\ UNCHANGED <<pc, k, seeded, loop>>

NextTwin == StepBoth

SpecTwin == InitTwin /\ [][NextTwin]_vars

----------------------------------------------------------------------------
(* SpecCatalog: one pattern of the catalog seeded on the grid new gives,   *)
(* then up to MaxGen calls of step                                         *)

InitCatalog ==
    /\ \E d \in (1 .. CatalogSide) \X (1 .. CatalogSide) : gol = new(d[1], d[2])
    /\ pc = "idle"
    /\ k = 0
    /\ op = Call("new", 0, 0, 0)
    /\ nops = 0
    /\ pre = gol
    /\ twin = NoTwin
    /\ seeded = NoSeed
    /\ loop = NoLoop

SeedBlock(x, y) ==
    /\ pc = "idle"
    /\ seeded = NoSeed
    /\ gol' = spawn_block(gol, x, y)
    /\ seeded' = [name |-> "block", x |-> x, y |-> y]
    /\ pre' = gol
    /\ op' = Call("spawn_block", x, y, 0)
    /\ UNCHANGED <<pc, k, nops, twin, loop>>

\* nops counts the generations.
Generation ==
    /\ pc = "idle"
    /\ seeded # NoSeed
    /\ nops < MaxGen
    /\ gol' = step(gol)
    /\ pre' = gol
    /\ op' = Call("step", 0, 0, 0)
    /\ nops' = nops + 1
    /\ UNCHANGED <<pc, k, twin, seeded, loop>>

NextCatalog ==
    \/ \E x \in 0 .. CatalogSide, y \in 0 .. CatalogSide : SeedBlock(x, y)
    \/ Generation

SpecCatalog == InitCatalog /\ [][NextCatalog]_vars

----------------------------------------------------------------------------
(* Seeding one pattern on the grid new gives, and the generations after it *)

\* The grid new gives with sides in lo .. hi.
InitGrid(lo, hi) ==
    /\ \E d \in (lo .. hi) \X (lo .. hi) : gol = new(d[1], d[2])
    /\ pc = "idle"
    /\ k = 0
    /\ op = Call("new", 0, 0, 0)
    /\ nops = 0
    /\ pre = gol
    /\ twin = NoTwin
    /\ seeded = NoSeed
    /\ loop = NoLoop

\* The seeding call c of pattern `name` returned g.
Seeds(g, name, c) ==
    /\ pc = "idle"
    /\ seeded = NoSeed
    /\ gol' = g
    /\ seeded' = [name |-> name, x |-> c.x, y |-> c.y]
    /\ pre' = gol
    /\ op' = c
    /\ UNCHANGED <<pc, k, nops, twin, loop>>

\* The origins of a seeding call: every cell of the grid.
Xs == 0 .. (gol.w - 1)
Ys == 0 .. (gol.h - 1)

\* One more call of step, the n-th at most since the seeding.
GenerationUpTo(n) ==
    /\ pc = "idle"
    /\ seeded # NoSeed
    /\ nops < n
    /\ gol' = step(gol)
    /\ pre' = gol
    /\ op' = Call("step", 0, 0, 0)
    /\ nops' = nops + 1
    /\ UNCHANGED <<pc, k, twin, seeded, loop>>

----------------------------------------------------------------------------
(* SpecBlinker: the blinker seeded at any origin of a grid of 5 ..         *)
(* BlinkerSide columns and rows, then up to MaxGen calls of step           *)

InitBlinker == InitGrid(5, BlinkerSide)

SeedBlinker(x, y) ==
    Seeds(spawn_blinker(gol, x, y), "blinker", Call("spawn_blinker", x, y, 0))

NextBlinker ==
    \/ \E x \in Xs, y \in Ys : SeedBlinker(x, y)
    \/ Generation

SpecBlinker == InitBlinker /\ [][NextBlinker]_vars

----------------------------------------------------------------------------
(* SpecGlider: the glider seeded at any origin of a grid of 5 ..           *)
(* GliderSide columns and rows, then up to ShipGen calls of step           *)

InitGlider == InitGrid(5, GliderSide)

SeedGlider(x, y) ==
    Seeds(spawn_glider(gol, x, y), "glider", Call("spawn_glider", x, y, 0))

GliderGeneration == GenerationUpTo(ShipGen)

NextGlider ==
    \/ \E x \in Xs, y \in Ys : SeedGlider(x, y)
    \/ GliderGeneration

SpecGlider == InitGlider /\ [][NextGlider]_vars

----------------------------------------------------------------------------
(* SpecShips: one of the three larger spaceships seeded at any origin of a *)
(* grid of 11 .. ShipSide columns and rows, then up to ShipGen calls of    *)
(* step                                                                    *)

InitShips == InitGrid(11, ShipSide)

SeedLwss(x, y) ==
    Seeds(spawn_lwss(gol, x, y), "lwss", Call("spawn_lwss", x, y, 0))

SeedMwss(x, y) ==
    Seeds(spawn_mwss(gol, x, y), "mwss", Call("spawn_mwss", x, y, 0))

SeedHwss(x, y) ==
    Seeds(spawn_hwss(gol, x, y), "hwss", Call("spawn_hwss", x, y, 0))

ShipGeneration == GenerationUpTo(ShipGen)

NextShips ==
    \/ \E x \in Xs, y \in Ys : SeedLwss(x, y)
    \/ \E x \in Xs, y \in Ys : SeedMwss(x, y)
    \/ \E x \in Xs, y \in Ys : SeedHwss(x, y)
    \/ ShipGeneration

SpecShips == InitShips /\ [][NextShips]_vars

----------------------------------------------------------------------------
(* SpecOscillators: a still life or an oscillator of the catalog seeded at *)
(* any origin of a grid of 6 .. OscSide columns and rows, or the pulsar at *)
(* any origin of a square grid of side 16 .. PulsarSide, then up to        *)
(* MaxGen calls of step                                                    *)

OscSizes ==
    ((6 .. OscSide) \X (6 .. OscSide)) \cup {<<n, n>> : n \in 16 .. PulsarSide}

InitOscillators ==
    /\ \E d \in OscSizes : gol = new(d[1], d[2])
    /\ pc = "idle"
    /\ k = 0
    /\ op = Call("new", 0, 0, 0)
    /\ nops = 0
    /\ pre = gol
    /\ twin = NoTwin
    /\ seeded = NoSeed
    /\ loop = NoLoop

SmallGrid == gol.w <= OscSide /\ gol.h <= OscSide

SeedBeehive(x, y) ==
    /\ SmallGrid
    /\ Seeds(spawn_beehive(gol, x, y), "beehive", Call("spawn_beehive", x, y, 0))

SeedLoaf(x, y) ==
    /\ SmallGrid
    /\ Seeds(spawn_loaf(gol, x, y), "loaf", Call("spawn_loaf", x, y, 0))

SeedBoat(x, y) ==
    /\ SmallGrid
    /\ Seeds(spawn_boat(gol, x, y), "boat", Call("spawn_boat", x, y, 0))

SeedTub(x, y) ==
    /\ SmallGrid
    /\ Seeds(spawn_tub(gol, x, y), "tub", Call("spawn_tub", x, y, 0))

SeedToad(x, y) ==
    /\ SmallGrid
    /\ Seeds(spawn_toad(gol, x, y), "toad", Call("spawn_toad", x, y, 0))

SeedBeacon(x, y) ==
    /\ SmallGrid
    /\ Seeds(spawn_beacon(gol, x, y), "beacon", Call("spawn_beacon", x, y, 0))

SeedPulsar(x, y) ==
    /\ ~SmallGrid
    /\ Seeds(spawn_pulsar(gol, x, y), "pulsar", Call("spawn_pulsar", x, y, 0))

NextOscillators ==
    \/ \E x \in Xs, y \in Ys : SeedBeehive(x, y)
    \/ \E x \in Xs, y \in Ys : SeedLoaf(x, y)
    \/ \E x \in Xs, y \in Ys : SeedBoat(x, y)
    \/ \E x \in Xs, y \in Ys : SeedTub(x, y)
    \/ \E x \in Xs, y \in Ys : SeedToad(x, y)
    \/ \E x \in Xs, y \in Ys : SeedBeacon(x, y)
    \/ \E x \in Xs, y \in Ys : SeedPulsar(x, y)
    \/ Generation

SpecOscillators == InitOscillators /\ [][NextOscillators]_vars

----------------------------------------------------------------------------
(* SpecPentadecathlon: the pattern of spawn_pentadecathlon seeded at any   *)
(* origin of a grid of 12 .. PentaSide columns and rows, then up to        *)
(* PentaGen calls of step                                                  *)

InitPentadecathlon == InitGrid(12, PentaSide)

SeedPentadecathlon(x, y) ==
    Seeds(spawn_pentadecathlon(gol, x, y), "pentadecathlon",
          Call("spawn_pentadecathlon", x, y, 0))

PentadecathlonGeneration == GenerationUpTo(PentaGen)

NextPentadecathlon ==
    \/ \E x \in Xs, y \in Ys : SeedPentadecathlon(x, y)
    \/ PentadecathlonGeneration

SpecPentadecathlon == InitPentadecathlon /\ [][NextPentadecathlon]_vars

----------------------------------------------------------------------------
(* Properties of the transition engine (checked under SpecScan)            *)

\* The cell of buffer b at column x, row y of a grid of width W.
At(b, W, x, y) == b[y * W + x]

\* The sum of the 8 cells of b around (x, y), each coordinate wrapped.
TorusSum(b, W, H, x, y) ==
      At(b, W, (x + W - 1) % W, (y + H - 1) % H)
    + At(b, W, x,               (y + H - 1) % H)
    + At(b, W, (x + 1) % W,     (y + H - 1) % H)
    + At(b, W, (x + W - 1) % W, y)
    + At(b, W, (x + 1) % W,     y)
    + At(b, W, (x + W - 1) % W, (y + 1) % H)
    + At(b, W, x,               (y + 1) % H)
    + At(b, W, (x + 1) % W,     (y + 1) % H)

\* Conway's rule, as a predicate: the cell lives in the next generation.
Lives(alive, n) == (alive /\ n \in {2, 3}) \/ (~alive /\ n = 3)

StepReturned == op.name = "step" /\ pc = "idle"

\* C1: after step() every cell is alive iff, in the grid before the step,
\* it was alive with 2 or 3 live neighbours or dead with exactly 3, the
\* neighbours being the 8 cells around it with wrapped coordinates.
C1_StepAppliesRule ==
    StepReturned =>
        \A x \in 0 .. (pre.w - 1), y \in 0 .. (pre.h - 1) :
            (At(gol.curr, pre.w, x, y) = 1)
                <=> Lives(At(pre.curr, pre.w, x, y) = 1,
                          TorusSum(pre.curr, pre.w, pre.h, x, y))

\* A step on a grid of at least 3x3 in which a dead cell with 3 live
\* neighbours was born, a live cell with 2 or 3 stayed alive, a live cell
\* with fewer than 2 died, and a dead cell with 2 and one with 4 stayed
\* dead.
C1_Witness ==
    /\ StepReturned
    /\ pre.w >= 3 /\ pre.h >= 3
    /\ LET P == (0 .. (pre.w - 1)) \X (0 .. (pre.h - 1))
           was(c) == At(pre.curr, pre.w, c[1], c[2])
           now(c) == At(gol.curr, pre.w, c[1], c[2])
           n(c) == TorusSum(pre.curr, pre.w, pre.h, c[1], c[2])
       IN  /\ \E c \in P : was(c) = 0 /\ n(c) = 3 /\ now(c) = 1
           /\ \E c \in P : was(c) = 1 /\ n(c) \in {2, 3} /\ now(c) = 1
           /\ \E c \in P : was(c) = 1 /\ n(c) < 2 /\ now(c) = 0
           /\ \E c \in P : was(c) = 0 /\ n(c) = 2 /\ now(c) = 0
           /\ \E c \in P : was(c) = 0 /\ n(c) = 4 /\ now(c) = 0

\* The cells the 8 wrapped offsets around (x, y) name.
TorusNeighbours(W, H, x, y) ==
    {<<(x + d[1]) % W, (y + d[2]) % H>> :
        d \in ({-1, 0, 1} \X {-1, 0, 1}) \ {<<0, 0>>}}

\* live_neighbors(x, y) returned the number of live cells among 8 cells
\* around (x, y), none of them (x, y) itself.
CountsEightOthers ==
    LET N == TorusNeighbours(pre.w, pre.h, op.x, op.y)
    IN  /\ Cardinality(N) = 8
        /\ <<op.x, op.y>> \notin N
        /\ op.ret = Cardinality({c \in N : At(pre.curr, pre.w, c[1], c[2]) = 1})

\* C2, as stated: on every grid live_neighbors counts the live cells among
\* the 8 toroidal neighbours and never the cell itself.
C2_AsStated == op.name = "live_neighbors" => CountsEightOthers

\* C2 amended: the same on every grid of at least 3 columns and 3 rows.
C2_NeighboursOnGridsFrom3x3 ==
    (op.name = "live_neighbors" /\ pre.w >= 3 /\ pre.h >= 3) => CountsEightOthers

\* The wrap case of the claim on a 4x3 grid: only (0,0) and (3,2), the
\* opposite corner, are alive and live_neighbors(0,0) returned 1.
C2_Witness ==
    /\ op.name = "live_neighbors" /\ op.x = 0 /\ op.y = 0 /\ op.ret = 1
    /\ pre.w = 4 /\ pre.h = 3
    /\ \A i \in Cells(pre) : pre.curr[i] = 1 <=> i \in {0, 11}

\* C3: while step scans, curr is the buffer of before the call, the cells
\* already written to next hold the rule's value on that buffer and the
\* others are untouched; when step returns, next is the buffer curr was.
C3_SimultaneousUpdate ==
    /\ pc = "scan" =>
          /\ gol.curr = pre.curr
          /\ \A i \in Cells(pre) :
                IF i < k
                THEN gol.next[i] =
                        Bit(Lives(pre.curr[i] = 1,
                                  TorusSum(pre.curr, pre.w, pre.h,
                                           i % pre.w, i \div pre.w)))
                ELSE gol.next[i] = pre.next[i]
    /\ StepReturned => gol.next = pre.curr

\* Mid-scan, a cell already written differs from its value in curr, and
\* the scan has not reached the last cell.
C3_Witness ==
    /\ pc = "scan"
    /\ k > 0 /\ k < pre.w * pre.h
    /\ \E i \in 0 .. (k - 1) : gol.next[i] # gol.curr[i]

----------------------------------------------------------------------------
(* Determinism of step (checked under SpecTwin)                            *)

\* C4: two values of the same size whose current buffers were equal have
\* equal current buffers after step, whatever their scratch buffers,
\* paused and step_once flags and delay were.
C4_StepDependsOnCurrOnly ==
    (/\ StepReturned
     /\ twin.was.w = pre.w /\ twin.was.h = pre.h
     /\ twin.was.curr = pre.curr)
        => gol.curr = twin.now.curr

\* Both values stepped from the same non-empty buffer to a non-empty one,
\* with scratch buffers, flags and delay that all differed.
C4_Witness ==
    /\ StepReturned
    /\ twin.was.curr = pre.curr
    /\ twin.was.next # pre.next
    /\ twin.was.paused # pre.paused
    /\ twin.was.step_once # pre.step_once
    /\ twin.was.delay_ms # pre.delay_ms
    /\ \E i \in Cells(pre) : pre.curr[i] = 1
    /\ \E i \in Cells(gol) : gol.curr[i] = 1
    /\ gol.curr = twin.now.curr

----------------------------------------------------------------------------
(* Properties of the grid state store (checked under SpecCall)             *)

\* The fields a call on the cells must leave alone.
SameShapeAndRunState ==
    /\ gol.w = pre.w /\ gol.h = pre.h
    /\ DOMAIN gol.curr = DOMAIN pre.curr
    /\ DOMAIN gol.next = DOMAIN pre.next
    /\ gol.paused = pre.paused
    /\ gol.step_once = pre.step_once
    /\ gol.delay_ms = pre.delay_ms

\* C5: after clear() every cell of both buffers is dead, is_alive is false
\* for every in-bounds cell, a second clear() changes nothing, and the
\* dimensions and the run state are as before.
C5_ClearKillsBothBuffers ==
    op.name = "clear" =>
        /\ ~op.panic
        /\ \A i \in Cells(pre) : gol.curr[i] = 0 /\ gol.next[i] = 0
        /\ \A x \in 0 .. (pre.w - 1), y \in 0 .. (pre.h - 1) : ~is_alive(gol, x, y)
        /\ clear(gol) = gol
        /\ SameShapeAndRunState

\* clear() on a value with live cells in both buffers, paused, with a
\* pending single step and the delay of key 3.
C5_Witness ==
    /\ op.name = "clear"
    /\ \E i \in Cells(pre) : pre.curr[i] = 1
    /\ \E i \in Cells(pre) : pre.next[i] = 1
    /\ pre.paused /\ pre.step_once /\ pre.delay_ms = 16
    /\ gol.paused /\ gol.step_once /\ gol.delay_ms = 16

\* The live cells of buffer b of a grid of width W, as (x, y) pairs.
LiveSet(b, W) == {<<i % W, i \div W>> : i \in {j \in DOMAIN b : b[j] = 1}}

\* The live cells of the catalog's patterns, read off the source.
BlockCells == {<<0, 0>>, <<1, 0>>, <<0, 1>>, <<1, 1>>}
RPentominoCells == {<<1, 0>>, <<2, 0>>, <<0, 1>>, <<1, 1>>, <<1, 2>>}

SeededCells(name) ==
    IF name = "spawn_block" THEN BlockCells ELSE RPentominoCells

IsSeeding == op.name \in {"spawn_block", "spawn_r_pentomino"}

\* C6: a seeding call that returns leaves as live cells of curr those of
\* before united with the pattern's cells shifted by the origin and wrapped
\* modulo W and H; next and everything else is unchanged.  (A seeding call
\* fails to return only on a grid of width or height 0.)
C6_SeedingIsAdditiveWithWrap ==
    IsSeeding =>
        /\ op.panic <=> (pre.w = 0 \/ pre.h = 0)
        /\ ~op.panic =>
              /\ LiveSet(gol.curr, pre.w)
                    = LiveSet(pre.curr, pre.w)
                      \cup {<<(op.x + d[1]) % pre.w, (op.y + d[2]) % pre.h>> :
                               d \in SeededCells(op.name)}
              /\ \A i \in Cells(pre) : gol.curr[i] \in {0, 1}
              /\ gol.next = pre.next
              /\ SameShapeAndRunState

\* The ASCII pattern seeded across the corner of a 2x2 grid (the pattern is
\* larger than the grid, offsets alias), onto a grid that had a live cell
\* and a live scratch cell; the seeding added cells.
C6_Witness ==
    /\ op.name = "spawn_r_pentomino" /\ ~op.panic
    /\ pre.w = 2 /\ pre.h = 2 /\ op.x = 1 /\ op.y = 1
    /\ \E i \in Cells(pre) : pre.curr[i] = 1
    /\ \E i \in Cells(pre) : pre.next[i] = 1
    /\ gol.curr # pre.curr

\* C7: set_alive and set_dead with x >= W or y >= H change nothing and
\* raise no fault; in bounds they set cell y*W+x of curr and change no
\* other cell, nor next, nor anything else.
C7_SetCellBoundsPolicy ==
    op.name \in {"set_alive", "set_dead"} =>
        /\ ~op.panic /\ pc # "panicked"
        /\ SameShapeAndRunState
        /\ gol.next = pre.next
        /\ IF op.x >= pre.w \/ op.y >= pre.h
           THEN gol.curr = pre.curr
           ELSE \A i \in Cells(pre) :
                   gol.curr[i] = IF i = op.y * pre.w + op.x
                                 THEN (IF op.name = "set_alive" THEN 1 ELSE 0)
                                 ELSE pre.curr[i]

\* set_alive with x = W on a row above the last: y*W+x is the index of a
\* cell of the next row, which was dead and stays dead.
C7_Witness ==
    /\ op.name = "set_alive"
    /\ op.x = pre.w /\ op.y < pre.h
    /\ op.y * pre.w + op.x \in Cells(pre)
    /\ pre.curr[op.y * pre.w + op.x] = 0
    /\ gol.curr = pre.curr

\* C8, as stated, on the grids of non-zero width and height: is_alive with
\* x >= W or y >= H returns false and raises no fault.
C8_IsAliveOutOfRangeIsDead ==
    (/\ op.name = "is_alive"
     /\ pre.w > 0 /\ pre.h > 0
     /\ (op.x >= pre.w \/ op.y >= pre.h))
        => (~op.panic /\ op.ret = 0)

----------------------------------------------------------------------------
(* Construction (checked under Spec)                                       *)

\* C9, as stated: new rejects a width or height of 0, so no call is ever
\* made on a GameOfLife of width or height 0.
C9_NoCallOnZeroSizedGrid == nops > 0 => (gol.w > 0 /\ gol.h > 0)

----------------------------------------------------------------------------
(* Properties of the catalog (checked under SpecCatalog)                   *)

\* The cells of a pattern placed at the seeded origin, wrapped.
Placed(cells) ==
    {<<(seeded.x + d[1]) % gol.w, (seeded.y + d[2]) % gol.h>> : d \in cells}

\* After the seeding and after every generation since, the live cells are
\* exactly the four cells of the block.
BlockStands ==
    /\ LiveSet(gol.curr, gol.w) = Placed(BlockCells)
    /\ Cardinality(LiveSet(gol.curr, gol.w)) = 4

\* C10, as stated: on any grid, a step after the block was seeded at any
\* origin on the empty grid leaves the block's cells alive and all others
\* dead: the current buffer after the step equals the one before.
C10_AsStated ==
    (seeded.name = "block" /\ op.name = "step") =>
        /\ LiveSet(gol.curr, gol.w) = Placed(BlockCells)
        /\ gol.curr = pre.curr

\* C10 amended: the same on every grid of at least 3 columns and 3 rows.
C10_BlockIsStillOnGridsFrom3x3 ==
    (seeded.name = "block" /\ gol.w >= 3 /\ gol.h >= 3) => BlockStands

\* The block seeded across the corner of the grid, MaxGen generations on.
C10_Witness ==
    /\ seeded.name = "block" /\ gol.w >= 3 /\ gol.h >= 3
    /\ seeded.x = gol.w - 1 /\ seeded.y = gol.h - 1
    /\ op.name = "step" /\ nops = MaxGen
    /\ BlockStands

----------------------------------------------------------------------------
(* The blinker (checked under SpecBlinker)                                 *)

\* The cells (cx + dx, cy + dy), wrapped, for the (dx, dy) of a set of
\* signed offsets.
Around(cx, cy, offs) ==
    {<<(cx + d[1] + gol.w) % gol.w, (cy + d[2] + gol.h) % gol.h>> : d \in offs}

BlinkerRow == Around(seeded.x + 1, seeded.y, {<<-1, 0>>, <<0, 0>>, <<1, 0>>})
BlinkerColumn == Around(seeded.x + 1, seeded.y, {<<0, -1>>, <<0, 0>>, <<0, 1>>})

\* C11: on a grid of at least 5x5, the blinker seeded at any origin on the
\* empty grid is, after one step, exactly the vertical column of 3 cells
\* centred on the row's middle cell (wrapped), and after a second step
\* exactly the seeded row again; and so on with period 2.
C11_BlinkerHasPeriod2 ==
    (seeded.name = "blinker" /\ gol.w >= 5 /\ gol.h >= 5) =>
        /\ Cardinality(LiveSet(gol.curr, gol.w)) = 3
        /\ nops % 2 = 1 => LiveSet(gol.curr, gol.w) = BlinkerColumn
        /\ nops % 2 = 0 =>
               /\ LiveSet(gol.curr, gol.w) = BlinkerRow
               /\ gol.curr = spawn_blinker(new(gol.w, gol.h), seeded.x, seeded.y).curr
        /\ (op.name = "step" /\ nops = 1) => gol.curr # pre.curr

\* The blinker seeded on the top row across the right edge of a 5x5 grid:
\* its column wraps to the bottom row, and two steps restored the row.
C11_Witness ==
    /\ seeded.name = "blinker" /\ gol.w = 5 /\ gol.h = 5
    /\ seeded.x = 4 /\ seeded.y = 0
    /\ op.name = "step" /\ nops = 2
    /\ pre.curr[idx(pre, 0, 4)] = 1 /\ pre.curr[idx(pre, 0, 1)] = 1
    /\ LiveSet(gol.curr, gol.w) = {<<4, 0>>, <<0, 0>>, <<1, 0>>}

----------------------------------------------------------------------------
(* The glider (checked under SpecGlider)                                   *)

\* The empty grid of the size of gol.
Empty == new(gol.w, gol.h)

\* C12: the glider seeded at any origin (ox, oy) on the empty grid is, after
\* every 4 steps, exactly the glider seeded one cell further right and down
\* (origin wrapped modulo W and H), across the grid's edges too.
C12_GliderMovesDiagonally ==
    seeded.name = "glider" =>
        /\ Cardinality(LiveSet(gol.curr, gol.w)) = 5
        /\ nops % 4 = 0 =>
               gol.curr = spawn_glider(Empty, seeded.x + (nops \div 4),
                                       seeded.y + (nops \div 4)).curr
        /\ nops \in 1 .. 3 =>
               gol.curr # spawn_glider(Empty, seeded.x + 1, seeded.y + 1).curr

\* The glider seeded at the last cell of a 5x5 grid, which it covers across
\* both edges, is after 4 steps the glider seeded at (0, 0).
C12_Witness ==
    /\ seeded.name = "glider" /\ gol.w = 5 /\ gol.h = 5
    /\ seeded.x = 4 /\ seeded.y = 4
    /\ op.name = "step" /\ nops = 4
    /\ LiveSet(gol.curr, gol.w) = {<<1, 0>>, <<2, 1>>, <<0, 2>>, <<1, 2>>, <<2, 2>>}

----------------------------------------------------------------------------
(* The larger spaceships (checked under SpecShips)                         *)

\* The buffer of pattern `name` seeded on the empty grid at (x, y).
SeededAt(name, x, y) ==
    CASE name = "beehive" -> spawn_beehive(Empty, x, y).curr
      [] name = "loaf" -> spawn_loaf(Empty, x, y).curr
      [] name = "boat" -> spawn_boat(Empty, x, y).curr
      [] name = "tub" -> spawn_tub(Empty, x, y).curr
      [] name = "toad" -> spawn_toad(Empty, x, y).curr
      [] name = "beacon" -> spawn_beacon(Empty, x, y).curr
      [] name = "pulsar" -> spawn_pulsar(Empty, x, y).curr
      [] name = "lwss" -> spawn_lwss(Empty, x, y).curr
      [] name = "mwss" -> spawn_mwss(Empty, x, y).curr
      [] name = "hwss" -> spawn_hwss(Empty, x, y).curr

\* After 4 steps the buffer is that of the seeded pattern moved 2 cells to
\* the right or 2 cells to the left (wrapped modulo W).
MovedTwoCells ==
    nops = 4 =>
        \/ gol.curr = SeededAt(seeded.name, seeded.x + 2, seeded.y)
        \/ gol.curr = SeededAt(seeded.name, seeded.x + gol.w - 2, seeded.y)

\* C16: the lightweight spaceship seeded at any origin on the empty grid is,
\* after 4 steps, exactly the seeded shape moved 2 cells horizontally.
C16_LwssMovesTwoCells == seeded.name = "lwss" => MovedTwoCells

\* The spaceship seeded at the origin of an 11x11 grid: after 4 steps it is
\* the one seeded at (9, 0), 2 cells to the left through the wrap.
C16_Witness ==
    /\ seeded.name = "lwss" /\ gol.w = 11 /\ gol.h = 11
    /\ seeded.x = 0 /\ seeded.y = 0
    /\ op.name = "step" /\ nops = 4
    /\ gol.curr = spawn_lwss(Empty, 9, 0).curr
    /\ gol.curr # pre.curr

\* C17, as stated: the patterns of spawn_mwss and spawn_hwss seeded at any
\* origin on the empty grid are, after 4 steps, exactly the seeded shape
\* moved 2 cells horizontally.
C17_MwssAndHwssMoveTwoCells ==
    seeded.name \in {"mwss", "hwss"} => MovedTwoCells

----------------------------------------------------------------------------
(* The pentadecathlon (checked under SpecPentadecathlon)                   *)

\* C15, as stated: the pattern of spawn_pentadecathlon seeded at any origin
\* on the empty grid is, after 15 steps, the seeded configuration again.
C15_PentadecathlonHasPeriod15 ==
    (seeded.name = "pentadecathlon" /\ nops = 15) =>
        gol.curr = spawn_pentadecathlon(Empty, seeded.x, seeded.y).curr

----------------------------------------------------------------------------
(* Still lifes and oscillators (checked under SpecOscillators)             *)

\* The period the catalog gives each pattern.
Period(name) ==
    CASE name \in {"beehive", "loaf", "boat", "tub"} -> 1
      [] name \in {"toad", "beacon"} -> 2
      [] name = "pulsar" -> 3

\* C14: seeded alone at any origin on the empty grid, beehive, loaf, boat
\* and tub are unchanged by every step; toad and beacon are the seeded
\* configuration again after 2 steps and the pulsar after 3, and not after
\* fewer.
C14_StillLifesAndOscillators ==
    seeded.name \in {"beehive", "loaf", "boat", "tub", "toad", "beacon", "pulsar"} =>
        (gol.curr = SeededAt(seeded.name, seeded.x, seeded.y)
            <=> nops % Period(seeded.name) = 0)

\* The pulsar seeded at the last cell of a 16x16 grid, which it covers
\* across both edges: the third step restored the seeded configuration.
C14_Witness ==
    /\ seeded.name = "pulsar" /\ gol.w = 16 /\ gol.h = 16
    /\ seeded.x = 15 /\ seeded.y = 15
    /\ op.name = "step" /\ nops = 3
    /\ gol.curr = spawn_pulsar(Empty, 15, 15).curr
    /\ gol.curr # pre.curr
    /\ Cardinality(LiveSet(gol.curr, gol.w)) = 48

----------------------------------------------------------------------------
(* randomize (checked under SpecRandomize)                                 *)

\* The draw made for cell i in the last call.
DrawOf(i) == (op.y \div Pow100(i)) % 100

\* C13: randomize(p) leaves every cell of curr 0 or 1, alive exactly when
\* the cell's draw is below p; so whatever the draws and the contents
\* before, randomize(0.0) leaves curr all dead and randomize(1.0) all alive.
C13_RandomizeThreshold ==
    op.name = "randomize" =>
        /\ DOMAIN gol.curr = DOMAIN pre.curr
        /\ \A i \in Cells(pre) :
              /\ gol.curr[i] \in {0, 1}
              /\ gol.curr[i] = 1 <=> DrawOf(i) < op.x
        /\ op.x = 0 => \A i \in Cells(pre) : gol.curr[i] = 0
        /\ op.x = 100 => \A i \in Cells(pre) : gol.curr[i] = 1

\* randomize(0.0) on a grid of two live cells, with the least draw, 0.0,
\* for the first cell and the greatest for the second, left both dead.
C13_Witness ==
    /\ op.name = "randomize" /\ op.x = 0
    /\ pre.w * pre.h = 2
    /\ \A i \in Cells(pre) : pre.curr[i] = 1 /\ gol.curr[i] = 0
    /\ DrawOf(0) = 0 /\ DrawOf(1) = 99

----------------------------------------------------------------------------
(* Well-formedness of the grid (checked under Spec)                        *)

\* Buffer b has one cell, 0 or 1, for each of the W*H indices.
WellFormed(b, W, H) ==
    /\ DOMAIN b = 0 .. (W * H - 1)
    /\ \A i \in DOMAIN b : b[i] \in {0, 1}

\* C18: new gives two buffers of W*H dead cells, and after any sequence of
\* calls the size is the one of construction, both buffers have exactly
\* W*H cells, each 0 or 1; so the count live_neighbors returns for a cell is
\* the sum of its 8 wrapped neighbours, between 0 and 8, and the u8 counter
\* does not wrap.
C18_GridIsWellFormed ==
    /\ gol.w = pre.w /\ gol.h = pre.h
    /\ WellFormed(gol.curr, gol.w, gol.h)
    /\ WellFormed(gol.next, gol.w, gol.h)
    /\ nops = 0 => \A i \in Cells(gol) : gol.curr[i] = 0 /\ gol.next[i] = 0
    /\ \A x \in 0 .. (gol.w - 1), y \in 0 .. (gol.h - 1) :
          /\ live_neighbors(gol, x, y) = TorusSum(gol.curr, gol.w, gol.h, x, y)
          /\ live_neighbors(gol, x, y) \in 0 .. 8

\* A 2x2 grid after spawn_block and step: the step counted 8 live
\* neighbours for every cell, curr is all dead and next all alive.
C18_Witness ==
    /\ op.name = "step" /\ nops = 2 /\ gol.w = 2 /\ gol.h = 2
    /\ \A i \in Cells(gol) : pre.curr[i] = 1 /\ gol.curr[i] = 0 /\ gol.next[i] = 1
    /\ live_neighbors(pre, 0, 0) = 8

----------------------------------------------------------------------------
(* The driver loop (checked under SpecDriver)                              *)

\* The update of an iteration has been made: the loop is about to render,
\* or it has rendered and is back at the input handling (or has ended).
Updated == pc = "render" \/ (pc \in {"input", "done"} /\ loop.shown # << >>)
Rendered == pc \in {"input", "done"} /\ loop.shown # << >>

\* C19: an iteration handles the input, then calls step at most once, then
\* renders.  step is called exactly when, after the input handling, the
\* grid is paused with step_once set, or is not paused and the time since
\* the last step is at least delay_ms; after an iteration that called step,
\* step_once is false.  So N pressed while paused advances the grid by
\* exactly one generation in the same iteration, before the render, and a
\* paused iteration that begins with step_once false and sees no N does
\* not step.
C19_DriverLoopSteppingProtocol ==
    /\ pc = "update" => gol = loop.input
    /\ Updated =>
          /\ loop.stepped <=>
                \/ loop.input.paused /\ loop.input.step_once
                \/ ~loop.input.paused /\ loop.elapsed >= loop.input.delay_ms
          /\ loop.stepped => gol = [step(loop.input) EXCEPT !.step_once = FALSE]
          /\ ~loop.stepped => gol = loop.input
          /\ (loop.input.paused /\ "N" \in loop.keys) =>
                /\ loop.stepped
                /\ gol.curr = step(loop.input).curr
                /\ ~gol.step_once
          /\ (loop.input.paused /\ "N" \notin loop.keys /\ ~loop.begun.step_once) =>
                ~loop.stepped
    /\ Rendered => loop.shown = gol.curr

\* N was pressed while paused on a live cell: the iteration stepped, the
\* cell died, step_once is false again and the render drew the new
\* generation.
C19_Witness ==
    /\ Rendered /\ pc = "input"
    /\ loop.begun.paused /\ loop.input.paused /\ "N" \in loop.keys
    /\ loop.stepped /\ ~gol.step_once
    /\ loop.input.curr[0] = 1 /\ gol.curr[0] = 0 /\ loop.shown = gol.curr

\* C20: in an iteration that is paused after the input handling and in
\* which N is not pressed, step is not called, whatever came before; and
\* from one paused iteration to the next the grid changes only by a step
\* that N requested, by clear or by randomize.
C20_PausingHaltsTheSimulation ==
    Updated =>
      /\ (loop.input.paused /\ "N" \notin loop.keys) => ~loop.stepped
      /\ (loop.input.paused /\ loop.keys \cap {"N", "C", "R"} = {}) =>
            gol.curr = loop.begun.curr

====
